---- MODULE Spec2Model ----
(***************************************************************************)
(* FAA Digital Obstacle File tools (src/object_data_parser.py):            *)
(*   parse_dof_line         fixed-column record parser                     *)
(*   parse_dof_file         line filter + parser loop                      *)
(*   dms_to_decimal_degrees degrees/minutes/seconds -> signed decimal      *)
(*   create_obstacle_map    per-record conversion and marker placement     *)
(*                                                                         *)
(* A Python str is a sequence of one-character strings.  Python indices    *)
(* are kept zero-based in the operators that take them (Slice, Index), as  *)
(* in the source.  A Python float is a record: a finite value is the exact *)
(* rational n/d, and "inf" / "nan" are the IEEE specials the host parser   *)
(* can produce.  Rounding of finite doubles is not modelled.               *)
(***************************************************************************)
EXTENDS Integers, Sequences, FiniteSets, TLC

VARIABLES pc, line, parsed, file, pos, records, calls, status,
          dms_args, decimal, obstacle_data, idx, markers

vars == <<pc, line, parsed, file, pos, records, calls, status,
          dms_args, decimal, obstacle_data, idx, markers>>

parse_vars == <<line, parsed>>
file_vars == <<file, pos, records, calls, status>>
dms_vars == <<dms_args, decimal>>
map_vars == <<obstacle_data, idx, markers>>

(***************************************************************************)
(* Bounds of the model.                                                    *)
(***************************************************************************)
\* Characters a generated line may have beyond the last declared column.
MaxExtra == 1
\* Length of the generated degrees/minutes/seconds strings.
MaxStrLen == 1
\* Lines in a generated file.
MaxLines == 2
\* Records handed to create_obstacle_map.
MaxRecords == 2

(***************************************************************************)
(* Program constants.                                                      *)
(***************************************************************************)
\* `len(line) < 80` in parse_dof_file.
MinDataLen == 80
\* End of the last slice of parse_dof_line, line[120:127].
LastColumn == 127

(***************************************************************************)
(* str helpers.                                                            *)
(***************************************************************************)
Min(a, b) == IF a < b THEN a ELSE b

\* Characters str.strip() removes (the ASCII part of str.isspace()).
Whitespace == {" ", "\t", "\n", "\r"}

RECURSIVE LStrip(_)
LStrip(s) ==
  IF s # <<>> /\ Head(s) \in Whitespace THEN LStrip(Tail(s)) ELSE s

RECURSIVE RStrip(_)
RStrip(s) ==
  IF s # <<>> /\ s[Len(s)] \in Whitespace
  THEN RStrip(SubSeq(s, 1, Len(s) - 1))
  ELSE s

\* s.strip()
Strip(s) == LStrip(RStrip(s))

\* A plausible slip: the end column is taken as inclusive of one less.
SliceShort(s, a, b) == SubSeq(s, a + 1, Min(b - 1, Len(s)))

\* s[a:b] for 0 <= a <= b: clamped to the string, never raises.
Slice(s, a, b) == SubSeq(s, a + 1, Min(b, Len(s)))

\* s[i] raises IndexError exactly when i is not an index of s.
IndexRaises(s, i) == i >= Len(s)

\* s[i] for an index of s: a one-character string.
Index(s, i) == <<s[i + 1]>>

\* s.rstrip("\n")
RECURSIVE RStripNewline(_)
RStripNewline(s) ==
  IF s # <<>> /\ s[Len(s)] = "\n"
  THEN RStripNewline(SubSeq(s, 1, Len(s) - 1))
  ELSE s

(***************************************************************************)
(* parse_dof_line                                                          *)
(***************************************************************************)
\* The positions parse_dof_line reads with line[i] rather than a slice.
IndexedPositions == {10, 46, 60, 81, 95, 97, 99, 101, 118}

\* The outcome of a call: a returned value, or the exception that left it.
Returned(v) == [exc |-> "none", value |-> v]
Raised(e) == [exc |-> e, value |-> <<>>]

\* A plausible slip: the last entry of the dict is left out.
parse_dof_line_no_julian(l) ==
  IF \E i \in IndexedPositions : IndexRaises(l, i)
  THEN Raised("IndexError")
  ELSE Returned(
    [ oas_code            |-> Strip(Slice(l, 0, 2)),
      obstacle_number     |-> Strip(Slice(l, 3, 9)),
      verification_status |-> Strip(Index(l, 10)),
      country_id          |-> Strip(Slice(l, 12, 14)),
      state_id            |-> Strip(Slice(l, 15, 17)),
      city_name           |-> Strip(Slice(l, 18, 34)),
      lat_deg             |-> Strip(Slice(l, 35, 37)),
      lat_min             |-> Strip(Slice(l, 38, 40)),
      lat_sec             |-> Strip(Slice(l, 41, 46)),
      lat_hem             |-> Strip(Index(l, 46)),
      lon_deg             |-> Strip(Slice(l, 48, 51)),
      lon_min             |-> Strip(Slice(l, 52, 54)),
      lon_sec             |-> Strip(Slice(l, 55, 60)),
      lon_hem             |-> Strip(Index(l, 60)),
      obstacle_type       |-> Strip(Slice(l, 62, 80)),
      quantity            |-> Strip(Index(l, 81)),
      agl_height          |-> Strip(Slice(l, 83, 88)),
      amsl_height         |-> Strip(Slice(l, 89, 94)),
      lighting            |-> Strip(Index(l, 95)),
      horizontal_accuracy |-> Strip(Index(l, 97)),
      vertical_accuracy   |-> Strip(Index(l, 99)),
      mark_indicator      |-> Strip(Index(l, 101)),
      faa_study_number    |-> Strip(Slice(l, 103, 117)),
      action              |-> Strip(Index(l, 118)) ])

\* The dict literal is evaluated entry by entry; the first line[i] past the
\* end of the line raises IndexError and no dict is returned.
parse_dof_line(l) ==
  IF \E i \in IndexedPositions : IndexRaises(l, i)
  THEN Raised("IndexError")
  ELSE Returned(
    [ oas_code            |-> Strip(Slice(l, 0, 2)),
      obstacle_number     |-> Strip(Slice(l, 3, 9)),
      verification_status |-> Strip(Index(l, 10)),
      country_id          |-> Strip(Slice(l, 12, 14)),
      state_id            |-> Strip(Slice(l, 15, 17)),
      city_name           |-> Strip(Slice(l, 18, 34)),
      lat_deg             |-> Strip(Slice(l, 35, 37)),
      lat_min             |-> Strip(Slice(l, 38, 40)),
      lat_sec             |-> Strip(Slice(l, 41, 46)),
      lat_hem             |-> Strip(Index(l, 46)),
      lon_deg             |-> Strip(Slice(l, 48, 51)),
      lon_min             |-> Strip(Slice(l, 52, 54)),
      lon_sec             |-> Strip(Slice(l, 55, 60)),
      lon_hem             |-> Strip(Index(l, 60)),
      obstacle_type       |-> Strip(Slice(l, 62, 80)),
      quantity            |-> Strip(Index(l, 81)),
      agl_height          |-> Strip(Slice(l, 83, 88)),
      amsl_height         |-> Strip(Slice(l, 89, 94)),
      lighting            |-> Strip(Index(l, 95)),
      horizontal_accuracy |-> Strip(Index(l, 97)),
      vertical_accuracy   |-> Strip(Index(l, 99)),
      mark_indicator      |-> Strip(Index(l, 101)),
      faa_study_number    |-> Strip(Slice(l, 103, 117)),
      action              |-> Strip(Index(l, 118)),
      julian_date         |-> Strip(Slice(l, 120, 127)) ])

(***************************************************************************)
(* Input lines for parse_dof_line: a background of a given length with a   *)
(* marker token laid over it at a given column.                            *)
(***************************************************************************)
\* The backgrounds: every column its own character, all blanks, all dashes.
Backgrounds == {"ident", " ", "-"}

\* The longest generated line.
MaxLineLen == LastColumn + MaxExtra

IdentLine == SubSeq([i \in 1..MaxLineLen |-> "c" \o ToString(i)], 1, MaxLineLen)
BlankLine == SubSeq([i \in 1..MaxLineLen |-> " "], 1, MaxLineLen)
DashLine == SubSeq([i \in 1..MaxLineLen |-> "-"], 1, MaxLineLen)

Background(bg, n) ==
  SubSeq(CASE bg = "ident" -> IdentLine [] bg = " " -> BlankLine [] OTHER -> DashLine,
         1, n)

Markers == { <<"M">>, <<" ">>, <<"\t", "M", " ">>, <<"M", " ", "K">> }

\* s with token m written over it from column c (1-indexed), cut at len(s).
Overlay(s, c, m) ==
  SubSeq(s, 1, c - 1) \o SubSeq(m, 1, Min(Len(m), Len(s) - c + 1))
                     \o SubSeq(s, c + Len(m), Len(s))

LineLens == MinDataLen..MaxLineLen

Unused == <<>>

ParseIdle ==
  /\ line = Unused
  /\ parsed = Unused

FileIdle ==
  /\ file = Unused
  /\ pos = 0
  /\ records = Unused
  /\ calls = Unused
  /\ status = "unused"

DmsIdle ==
  /\ dms_args = Unused
  /\ decimal = Unused

MapIdle ==
  /\ obstacle_data = Unused
  /\ idx = 0
  /\ markers = Unused

(***************************************************************************)
(* Specification of one call of parse_dof_line.                            *)
(***************************************************************************)
InitParse ==
  /\ pc = "idle"
  /\ ParseIdle /\ FileIdle /\ DmsIdle /\ MapIdle

ParseLine(l) ==
  /\ pc = "idle"
  /\ pc' = "done"
  /\ line' = l
  /\ parsed' = parse_dof_line(l)
  /\ UNCHANGED <<file_vars, dms_vars, map_vars>>

\* The call is made once: nothing is enabled after it.
NextParse ==
  /\ pc = "idle"
  /\ \E bg \in Backgrounds, n \in LineLens, m \in Markers :
       \E c \in 1..n :
         \E l \in {Overlay(Background(bg, n), c, m)} : ParseLine(l)

SpecParse == InitParse /\ [][NextParse]_vars

(***************************************************************************)
(* The column table of the DOF layout (1-indexed, inclusive), against      *)
(* which the slices of parse_dof_line are compared.                        *)
(***************************************************************************)
ColumnTable ==
  [ oas_code            |-> <<1, 2>>,
    obstacle_number     |-> <<4, 9>>,
    verification_status |-> <<11, 11>>,
    country_id          |-> <<13, 14>>,
    state_id            |-> <<16, 17>>,
    city_name           |-> <<19, 34>>,
    lat_deg             |-> <<36, 37>>,
    lat_min             |-> <<39, 40>>,
    lat_sec             |-> <<42, 46>>,
    lat_hem             |-> <<47, 47>>,
    lon_deg             |-> <<49, 51>>,
    lon_min             |-> <<53, 54>>,
    lon_sec             |-> <<56, 60>>,
    lon_hem             |-> <<61, 61>>,
    obstacle_type       |-> <<63, 80>>,
    quantity            |-> <<82, 82>>,
    agl_height          |-> <<84, 88>>,
    amsl_height         |-> <<90, 94>>,
    lighting            |-> <<96, 96>>,
    horizontal_accuracy |-> <<98, 98>>,
    vertical_accuracy   |-> <<100, 100>>,
    mark_indicator      |-> <<102, 102>>,
    faa_study_number    |-> <<104, 117>>,
    action              |-> <<119, 119>>,
    julian_date         |-> <<121, 127>> ]

FieldNames ==
  { "oas_code", "obstacle_number", "verification_status", "country_id",
    "state_id", "city_name", "lat_deg", "lat_min", "lat_sec", "lat_hem",
    "lon_deg", "lon_min", "lon_sec", "lon_hem", "obstacle_type", "quantity",
    "agl_height", "amsl_height", "lighting", "horizontal_accuracy",
    "vertical_accuracy", "mark_indicator", "faa_study_number", "action",
    "julian_date" }

\* A Python str value: a finite sequence of characters.
IsStr(v) == DOMAIN v = 1..Len(v) /\ \A i \in 1..Len(v) : v[i] \in STRING

\* s without its leading and trailing whitespace, stated by positions.
Trimmed(s) ==
  LET keep == {i \in 1..Len(s) : s[i] \notin Whitespace}
  IN  IF keep = {} THEN <<>>
      ELSE SubSeq(s, CHOOSE i \in keep : \A j \in keep : i <= j,
                     CHOOSE i \in keep : \A j \in keep : j <= i)

\* The columns of l that belong to no field: column 3, the blank separator
\* columns, and whatever follows the last field.
SeparatorColumns(l) ==
  {c \in 1..Len(l) :
     \A f \in FieldNames : c < ColumnTable[f][1] \/ c > ColumnTable[f][2]}

ParsedFull == pc = "done" /\ Len(line) >= LastColumn

\* C1: parse_dof_line never raises on an in-spec-length input: every line of
\* at least 80 characters gets a record back.
C1_NeverRaisesInSpecLength ==
  (pc = "done" /\ Len(line) >= MinDataLen) => parsed.exc = "none"

\* C3: for every line of 127 or more characters the call returns a mapping
\* whose key set is exactly the 25 field names, every value a string.
C3_ExactKeySet ==
  ParsedFull =>
    /\ parsed.exc = "none"
    /\ DOMAIN parsed.value = FieldNames
    /\ Cardinality(DOMAIN parsed.value) = 25
    /\ \A f \in DOMAIN parsed.value : IsStr(parsed.value[f])

C3_Witness ==
  /\ ParsedFull
  /\ parsed.exc = "none"
  /\ parsed.value.julian_date # <<>>
  /\ parsed.value.lat_hem = <<>>

\* C4: for every line of 127 or more characters each field is the trimmed
\* substring at its column range of the table; overwriting a column that
\* belongs to no field changes no field; a one-column field holding a space
\* is the empty string.
C4_ColumnExact ==
  ParsedFull =>
    /\ parsed.exc = "none"
    /\ \A f \in FieldNames :
         parsed.value[f] =
           Trimmed(SubSeq(line, ColumnTable[f][1], ColumnTable[f][2]))
    /\ \A c \in SeparatorColumns(line) :
         parse_dof_line(Overlay(line, c, <<"#">>)).value = parsed.value
    /\ \A f \in FieldNames :
         (ColumnTable[f][1] = ColumnTable[f][2] /\ line[ColumnTable[f][1]] = " ")
           => parsed.value[f] = <<>>

C4_Witness ==
  /\ ParsedFull
  /\ parsed.exc = "none"
  /\ parsed.value.lat_sec = <<"c42", "c43", "c44", "c45", "c46">>
  /\ parsed.value.lat_hem = <<>>
  /\ parsed.value.julian_date =
       <<"c121", "c122", "c123", "c124", "c125", "c126", "c127">>

(***************************************************************************)
(* parse_dof_file                                                          *)
(***************************************************************************)
\* A plausible slip: the length test is forgotten.
IsBlankOnly(l) == Strip(l) = <<>>

\* `not line.strip() or len(line) < 80`
IsBlankOrShort(l) == Strip(l) = <<>> \/ Len(l) < MinDataLen

\* set(line.strip()) == {"-"}
IsOnlyDashes(l) ==
  LET t == Strip(l) IN {t[i] : i \in 1..Len(t)} = {"-"}

(***************************************************************************)
(* Files: up to MaxLines lines of the pool, each ended by a newline, the   *)
(* last one possibly not.                                                  *)
(***************************************************************************)
DataLine(n) == SubSeq(IdentLine, 1, n)

FileLinePool ==
  { <<>>,
    SubSeq(BlankLine, 1, MinDataLen + 10),
    SubSeq(DashLine, 1, MinDataLen - 20),
    SubSeq(DashLine, 1, LastColumn),
    <<" ">> \o SubSeq(DashLine, 1, MinDataLen + 20) \o <<" ">>,
    Overlay(SubSeq(DashLine, 1, LastColumn), 3, <<" ">>),
    Overlay(SubSeq(DashLine, 1, MinDataLen), 3, <<" ">>),
    DataLine(MinDataLen - 1),
    DataLine(MinDataLen),
    DataLine(LastColumn - 9),
    DataLine(LastColumn - 8),
    DataLine(LastColumn),
    Overlay(SubSeq(BlankLine, 1, LastColumn), 36, <<"4", "5">>) }

RECURSIVE SeqsUpTo(_, _)
SeqsUpTo(S, n) ==
  IF n = 0 THEN {<<>>}
  ELSE LET shorter == SeqsUpTo(S, n - 1)
       IN  shorter \cup {Append(q, x) : q \in {r \in shorter : Len(r) = n - 1}, x \in S}

\* The lines as `for line in f` yields them.
RawLines(content, final_newline) ==
  [i \in 1..Len(content) |->
     IF i < Len(content) \/ final_newline
     THEN content[i] \o <<"\n">>
     ELSE content[i]]

InitFile ==
  /\ pc = "reading"
  /\ \E content \in SeqsUpTo(FileLinePool, MaxLines), nl \in BOOLEAN :
       file = RawLines(content, nl)
  /\ pos = 0
  /\ records = <<>>
  /\ calls = <<>>
  /\ status = "open"
  /\ ParseIdle /\ DmsIdle /\ MapIdle

\* One iteration of `for line in f`.
ReadLine ==
  /\ pc = "reading"
  /\ status = "open"
  /\ pos < Len(file)
  /\ pos' = pos + 1
  /\ LET l == RStripNewline(file[pos + 1])
     IN  IF IsBlankOrShort(l) \/ IsOnlyDashes(l)
         THEN UNCHANGED <<records, calls, status, pc>>
         ELSE LET r == parse_dof_line(l)
              IN  /\ calls' = Append(calls, l)
                  /\ IF r.exc = "none"
                     THEN /\ records' = Append(records, r.value)
                          /\ UNCHANGED <<status, pc>>
                     ELSE \* the exception leaves the loop and the function
                          /\ status' = "raised"
                          /\ pc' = "done"
                          /\ UNCHANGED records
  /\ UNCHANGED <<file, parse_vars, dms_vars, map_vars>>

\* `return records` once the file is exhausted.
ReturnRecords ==
  /\ pc = "reading"
  /\ status = "open"
  /\ pos = Len(file)
  /\ status' = "returned"
  /\ pc' = "done"
  /\ UNCHANGED <<file, pos, records, calls, parse_vars, dms_vars, map_vars>>

NextFile == ReadLine \/ ReturnRecords

SpecFile == InitFile /\ [][NextFile]_vars

\* Whether the filter of the ingestion contract lets a line through.
AllDashes(l) == l # <<>> /\ \A i \in 1..Len(l) : l[i] = "-"
Qualifies(l) ==
  /\ Trimmed(l) # <<>>
  /\ Len(l) >= MinDataLen
  /\ ~AllDashes(Trimmed(l))

\* The line of the file at position i, without its newline.
LineAt(i) == SelectSeq(file[i], LAMBDA ch : ch # "\n")

QualifyingUpTo(n) == {i \in 1..n : Qualifies(LineAt(i))}

\* C2: no line is fatal to the batch: the call never ends in an exception,
\* and the returned list has one record per qualifying line.
C2_NoLineIsFatal ==
  /\ status # "raised"
  /\ status = "returned" =>
       Len(records) = Cardinality(QualifyingUpTo(Len(file)))

\* C9: every line handed to parse_dof_line is non-blank, at least
\* MinDataLen long and not made up only of dashes; the other lines produce
\* no call and no record.
C9_OnlyFilteredLinesParsed ==
  pc \in {"reading", "done"} =>
    /\ \A i \in 1..Len(calls) :
         /\ Trimmed(calls[i]) # <<>>
         /\ Len(calls[i]) >= MinDataLen
         /\ ~AllDashes(calls[i])
    /\ Len(calls) = Cardinality(QualifyingUpTo(pos))
    /\ Len(records) <= Len(calls)

C9_Witness ==
  /\ status = "returned"
  /\ Len(file) = 2
  /\ AllDashes(LineAt(1))
  /\ Len(LineAt(1)) >= MinDataLen
  /\ Len(calls) = 1
  /\ Len(records) = 1

(***************************************************************************)
(* Python floats.  A finite value is the exact rational n/d (d > 0);       *)
(* "inf" carries its sign in n; "nan" is the IEEE not-a-number.            *)
(***************************************************************************)
Fin(n, d) == [k |-> "fin", n |-> n, d |-> d]
Inf(sign) == [k |-> "inf", n |-> sign, d |-> 1]
NaN == [k |-> "nan", n |-> 0, d |-> 1]

RECURSIVE Gcd(_, _)
Gcd(a, b) == IF b = 0 THEN a ELSE Gcd(b, a % b)

Lcm(a, b) == (a \div Gcd(a, b)) * b

\* -a
FNeg(a) ==
  CASE a.k = "nan" -> NaN
    [] a.k = "inf" -> Inf(-a.n)
    [] OTHER -> Fin(-a.n, a.d)

\* a / c for a finite c > 0 (60.0, 3600.0)
FDiv(a, c) ==
  CASE a.k = "nan" -> NaN
    [] a.k = "inf" -> a
    [] OTHER -> Fin(a.n, a.d * c)

\* a + b
FAdd(a, b) ==
  CASE a.k = "nan" \/ b.k = "nan" -> NaN
    [] a.k = "inf" /\ b.k = "inf" -> IF a.n = b.n THEN a ELSE NaN
    [] a.k = "inf" -> a
    [] b.k = "inf" -> b
    [] OTHER ->
         LET l == Lcm(a.d, b.d)
         IN  Fin(a.n * (l \div a.d) + b.n * (l \div b.d), l)

\* a == 0
FIsZero(a) == a.k = "fin" /\ a.n = 0

(***************************************************************************)
(* float(str): surrounding whitespace is dropped; an optional sign; then   *)
(* "inf", "infinity" or "nan" in any letter case, or decimal digits with   *)
(* at most one point and at least one digit.  Anything else raises         *)
(* ValueError.  Exponent and underscore forms are not generated by the     *)
(* model's inputs and are not parsed here.                                 *)
(***************************************************************************)
Digits == {"0", "1", "2", "3", "4", "5", "6", "7", "8", "9"}

DigitVal(c) ==
  CASE c = "0" -> 0 [] c = "1" -> 1 [] c = "2" -> 2 [] c = "3" -> 3
    [] c = "4" -> 4 [] c = "5" -> 5 [] c = "6" -> 6 [] c = "7" -> 7
    [] c = "8" -> 8 [] c = "9" -> 9

RECURSIVE DigitsVal(_)
DigitsVal(s) ==
  IF s = <<>> THEN 0
  ELSE 10 * DigitsVal(SubSeq(s, 1, Len(s) - 1)) + DigitVal(s[Len(s)])

RECURSIVE Pow10(_)
Pow10(k) == IF k = 0 THEN 1 ELSE 10 * Pow10(k - 1)

LowerChar(c) ==
  CASE c = "I" -> "i" [] c = "N" -> "n" [] c = "F" -> "f" [] c = "A" -> "a"
    [] c = "T" -> "t" [] c = "Y" -> "y" [] OTHER -> c

Lower(s) == [i \in 1..Len(s) |-> LowerChar(s[i])]

AllDigits(s) == \A i \in 1..Len(s) : s[i] \in Digits

float(s) ==
  LET t == Strip(s)
      signed == t # <<>> /\ t[1] \in {"+", "-"}
      sign == IF signed /\ t[1] = "-" THEN -1 ELSE 1
      body == IF signed THEN Tail(t) ELSE t
      word == Lower(body)
      points == {i \in 1..Len(body) : body[i] = "."}
      int_part == IF points = {} THEN body
                  ELSE SubSeq(body, 1, (CHOOSE i \in points : TRUE) - 1)
      frac_part == IF points = {} THEN <<>>
                   ELSE SubSeq(body, (CHOOSE i \in points : TRUE) + 1, Len(body))
  IN  CASE word \in {<<"i", "n", "f">>, <<"i", "n", "f", "i", "n", "i", "t", "y">>}
             -> Returned(Inf(sign))
        [] word = <<"n", "a", "n">> -> Returned(NaN)
        [] /\ Cardinality(points) <= 1
           /\ AllDigits(int_part) /\ AllDigits(frac_part)
           /\ Len(int_part) + Len(frac_part) >= 1
             -> Returned(Fin(sign * DigitsVal(int_part \o frac_part),
                             Pow10(Len(frac_part))))
        [] OTHER -> Raised("ValueError")

\* str.upper(), character by character.  U+017F (LATIN SMALL LETTER LONG S)
\* is the one non-ASCII character whose upper case is "S".
UpperChar(c) ==
  CASE c = "s" -> "S" [] c = "w" -> "W" [] c = "n" -> "N" [] c = "e" -> "E"
    [] c = "x" -> "X" [] c = "U+017F" -> "S" [] OTHER -> c

Upper(s) == [i \in 1..Len(s) |-> UpperChar(s[i])]

(***************************************************************************)
(* dms_to_decimal_degrees                                                  *)
(***************************************************************************)
\* A plausible slip: the fallback of a failed parse is 1.0.
TryFloatOne(s) ==
  LET r == float(s) IN IF r.exc = "none" THEN r.value ELSE Fin(1, 1)

\* A plausible slip: the fallback of a failed parse is float("nan").
TryFloatNaN(s) ==
  LET r == float(s) IN IF r.exc = "none" THEN r.value ELSE NaN

\* try: x = float(s)  except: x = 0.0
TryFloat(s) ==
  LET r == float(s) IN IF r.exc = "none" THEN r.value ELSE Fin(0, 1)

\* A plausible slip: minutes are divided by 100.
DecimalOfPer100(degrees, minutes, seconds) ==
  FAdd(FAdd(degrees, FDiv(minutes, 100)), FDiv(seconds, 3600))

\* decimal = degrees + minutes / 60.0 + seconds / 3600.0
DecimalOf(degrees, minutes, seconds) ==
  FAdd(FAdd(degrees, FDiv(minutes, 60)), FDiv(seconds, 3600))

\* A plausible slip: the letter is compared without upper-casing.
IsSouthOrWestExact(hemisphere) == hemisphere \in {<<"S">>, <<"W">>}

\* hemisphere.upper() in ("S", "W")
IsSouthOrWest(hemisphere) ==
  LET u == Upper(hemisphere) IN u = <<"S">> \/ u = <<"W">>

dms_to_decimal_degrees(deg_str, min_str, sec_str, hemisphere) ==
  LET degrees == TryFloat(deg_str)
      minutes == TryFloat(min_str)
      seconds == TryFloat(sec_str)
      d == DecimalOf(degrees, minutes, seconds)
  IN  Returned(IF IsSouthOrWest(hemisphere) THEN FNeg(d) ELSE d)

(***************************************************************************)
(* Inputs of dms_to_decimal_degrees: every string over DmsAlphabet of at   *)
(* most MaxStrLen characters, and the longer strings of DmsSamples.        *)
(***************************************************************************)
DmsAlphabet == {"5", ".", "-", " "}

DmsSamples ==
  { <<"0">>, <<"4", "5">>, <<"3", "0">>, <<"1", "1", "7">>,
    <<"4", "9", ".", "1", "9">>, <<" ", "7", " ">>, <<"1", "x">>,
    <<"i", "n", "f">>, <<"-", "I", "n", "f">>, <<"n", "a", "n">> }

DmsStrings == SeqsUpTo(DmsAlphabet, MaxStrLen) \cup DmsSamples

Hemispheres ==
  { <<>>, <<"N">>, <<"S">>, <<"s">>, <<"W">>, <<"w">>,
    <<"U+017F">>, <<"S", "W">> }

InitDms ==
  /\ pc = "idle"
  /\ \E h \in Hemispheres, d \in DmsStrings :
       dms_args = [deg_str |-> d, hemisphere |-> h]
  /\ decimal = Unused
  /\ ParseIdle /\ FileIdle /\ MapIdle

\* One call; the degrees string and the hemisphere are those of the
\* initial state, the minutes and seconds strings are drawn here.
Convert(m, s) ==
  /\ pc' = "done"
  /\ dms_args' = [deg_str |-> dms_args.deg_str, min_str |-> m, sec_str |-> s,
                  hemisphere |-> dms_args.hemisphere]
  /\ decimal' = dms_to_decimal_degrees(dms_args.deg_str, m, s,
                                       dms_args.hemisphere)
  /\ UNCHANGED <<parse_vars, file_vars, map_vars>>

NextDms ==
  /\ pc = "idle"
  /\ \E m \in DmsStrings, s \in DmsStrings : Convert(m, s)

SpecDms == InitDms /\ [][NextDms]_vars

(***************************************************************************)
(* Claims about dms_to_decimal_degrees.                                    *)
(***************************************************************************)
Converted == pc = "done" /\ decimal # Unused

Unparseable(s) == float(s).exc # "none"

\* s where it parses, and "0" where it does not.
OrZeroString(s) == IF Unparseable(s) THEN <<"0">> ELSE s

\* The sub-fields as numbers, where they parse to finite ones.
ParsesFinite(s) == ~Unparseable(s) /\ float(s).value.k = "fin"

\* A finite value as a count of 1/D, for a D its denominator divides.
ScaleTo(v, D) == v.n * (D \div v.d)

\* C5: a sub-field that fails to parse counts as 0.0 and leaves the other
\* two as they are: the result is that of the same call with "0" in place of
\* each unparseable sub-field; with all three unparseable it is 0.0 whatever
\* the hemisphere.
C5_UnparseableIsZero ==
  Converted =>
    /\ decimal.exc = "none"
    /\ decimal =
         dms_to_decimal_degrees(OrZeroString(dms_args.deg_str),
                                OrZeroString(dms_args.min_str),
                                OrZeroString(dms_args.sec_str),
                                dms_args.hemisphere)
    /\ ( /\ Unparseable(dms_args.deg_str)
         /\ Unparseable(dms_args.min_str)
         /\ Unparseable(dms_args.sec_str) ) => FIsZero(decimal.value)

C5_Witness ==
  /\ Converted
  /\ Unparseable(dms_args.deg_str)
  /\ dms_args.min_str = <<"3", "0">>
  /\ dms_args.sec_str = <<>>
  /\ decimal.value.k = "fin"
  /\ decimal.value.n * 2 = decimal.value.d

\* The result of the same call made with the empty hemisphere.
Unsigned ==
  dms_to_decimal_degrees(dms_args.deg_str, dms_args.min_str,
                         dms_args.sec_str, <<>>).value

IsNegative(v) == v.k # "nan" /\ v.n < 0

NegatingHemispheres == {<<"S">>, <<"s">>, <<"W">>, <<"w">>, <<"U+017F">>}

C7_AlwaysFinite ==
  Converted => decimal.exc = "none" /\ decimal.value.k = "fin"

\* C7, amended: the call returns for all four strings, and the result is
\* finite when every sub-field either fails to parse or parses to a finite
\* number.
C7_FiniteUnlessParsedNonFinite ==
  Converted =>
    /\ decimal.exc = "none"
    /\ (\A s \in {dms_args.deg_str, dms_args.min_str, dms_args.sec_str} :
          Unparseable(s) \/ ParsesFinite(s))
         => decimal.value.k = "fin"

C7_Witness ==
  /\ Converted
  /\ Unparseable(dms_args.deg_str)
  /\ dms_args.min_str = <<"1", "x">>
  /\ dms_args.sec_str = <<"4", "9", ".", "1", "9">>
  /\ decimal.exc = "none"
  /\ decimal.value.k = "fin"

\* C8: when the three sub-fields parse as numbers, 3600 times the result is
\* 3600*degrees + 60*minutes + seconds, before the hemisphere's sign.
C8_Magnitude ==
  ( /\ Converted
    /\ ParsesFinite(dms_args.deg_str)
    /\ ParsesFinite(dms_args.min_str)
    /\ ParsesFinite(dms_args.sec_str) ) =>
    LET dv == float(dms_args.deg_str).value
        mv == float(dms_args.min_str).value
        sv == float(dms_args.sec_str).value
        K == Lcm(dv.d, Lcm(mv.d, sv.d))
        sum == 3600 * ScaleTo(dv, K) + 60 * ScaleTo(mv, K) + ScaleTo(sv, K)
        r == decimal.value
    IN  /\ r.k = "fin"
        /\ (3600 * K) % r.d = 0
        /\ ScaleTo(r, 3600 * K) =
             IF dms_args.hemisphere \in NegatingHemispheres THEN -sum ELSE sum

C8_Witness ==
  /\ Converted
  /\ dms_args.deg_str = <<"4", "5">>
  /\ dms_args.min_str = <<"3", "0">>
  /\ dms_args.sec_str = <<"0">>
  /\ dms_args.hemisphere = <<"N">>
  /\ decimal.value.n * 2 = 91 * decimal.value.d

(***************************************************************************)
(* create_obstacle_map                                                     *)
(***************************************************************************)
\* A plausible slip: a record is dropped when either coordinate is 0.
IsMissingEither(lat, lon) == FIsZero(lat) \/ FIsZero(lon)

\* `lat == 0 and lon == 0`
IsMissing(lat, lon) == FIsZero(lat) /\ FIsZero(lon)

Latitude(obs) ==
  dms_to_decimal_degrees(obs.lat_deg, obs.lat_min, obs.lat_sec, obs.lat_hem).value

Longitude(obs) ==
  dms_to_decimal_degrees(obs.lon_deg, obs.lon_min, obs.lon_sec, obs.lon_hem).value

\* folium.Marker(location=[lat, lon], tooltip=obstacle_type); the popup text
\* is formatted from the same record and is not modelled.
Marker(obs, lat, lon) ==
  [location |-> <<lat, lon>>, tooltip |-> obs.obstacle_type]

(***************************************************************************)
(* Records for create_obstacle_map: what parse_dof_line returns for a      *)
(* blank 127-column line with the eight coordinate fields written at their *)
(* columns.  An axis is <<degrees, minutes, seconds, hemisphere>>.         *)
(***************************************************************************)
LatAxes ==
  { << <<>>, <<>>, <<>>, <<>> >>,
    << <<"0">>, <<"0">>, <<"0">>, <<"N">> >>,
    << <<"4", "5">>, <<"3", "0">>, <<"0">>, <<"S">> >>,
    << <<"x">>, <<"-">>, <<".">>, <<"N">> >>,
    << <<>>, <<>>, <<"n", "a", "n">>, <<>> >> }

LonAxes ==
  { << <<>>, <<>>, <<>>, <<>> >>,
    << <<"0">>, <<"0">>, <<"0">>, <<"W">> >>,
    << <<"1", "1", "7">>, <<"5">>, <<"4", "9", ".", "1", "9">>, <<"W">> >>,
    << <<>>, <<"x">>, <<"3", "0">>, <<"E">> >> }

ObstacleLine(lat, lon) ==
  LET l0 == SubSeq(BlankLine, 1, LastColumn)
      l1 == Overlay(l0, ColumnTable.lat_deg[1], lat[1])
      l2 == Overlay(l1, ColumnTable.lat_min[1], lat[2])
      l3 == Overlay(l2, ColumnTable.lat_sec[1], lat[3])
      l4 == Overlay(l3, ColumnTable.lat_hem[1], lat[4])
      l5 == Overlay(l4, ColumnTable.lon_deg[1], lon[1])
      l6 == Overlay(l5, ColumnTable.lon_min[1], lon[2])
      l7 == Overlay(l6, ColumnTable.lon_sec[1], lon[3])
      l8 == Overlay(l7, ColumnTable.lon_hem[1], lon[4])
  IN  Overlay(l8, ColumnTable.obstacle_type[1], <<"T", "O", "W", "E", "R">>)

ObstacleRecords ==
  { parse_dof_line(ObstacleLine(lat, lon)).value : lat \in LatAxes, lon \in LonAxes }

InitMap ==
  /\ pc = "plotting"
  /\ obstacle_data \in SeqsUpTo(ObstacleRecords, MaxRecords)
  /\ idx = 0
  /\ markers = <<>>
  /\ ParseIdle /\ FileIdle /\ DmsIdle

\* One iteration of `for obs in obstacle_data`.
PlotNext ==
  /\ pc = "plotting"
  /\ idx < Len(obstacle_data)
  /\ idx' = idx + 1
  /\ LET obs == obstacle_data[idx + 1]
         lat == Latitude(obs)
         lon == Longitude(obs)
     IN  markers' = IF IsMissing(lat, lon)
                    THEN markers
                    ELSE Append(markers, Marker(obs, lat, lon))
  /\ UNCHANGED <<pc, obstacle_data, parse_vars, file_vars, dms_vars>>

\* obstacle_map.save(map_filename)
SaveMap ==
  /\ pc = "plotting"
  /\ idx = Len(obstacle_data)
  /\ pc' = "saved"
  /\ UNCHANGED <<obstacle_data, idx, markers, parse_vars, file_vars, dms_vars>>

NextMap == PlotNext \/ SaveMap

SpecMap == InitMap /\ [][NextMap]_vars

(***************************************************************************)
(* Claims about create_obstacle_map.                                       *)
(***************************************************************************)
Plotting == pc \in {"plotting", "saved"}

\* The records among the first n whose coordinates are not both zero.
Plotted(n) ==
  {i \in 1..n :
     ~(FIsZero(Latitude(obstacle_data[i])) /\ FIsZero(Longitude(obstacle_data[i])))}

\* The place of record i among the plotted ones.
Rank(i) == Cardinality({j \in Plotted(i) : j <= i})

LatUnparseable(obs) ==
  Unparseable(obs.lat_deg) /\ Unparseable(obs.lat_min) /\ Unparseable(obs.lat_sec)

LonUnparseable(obs) ==
  Unparseable(obs.lon_deg) /\ Unparseable(obs.lon_min) /\ Unparseable(obs.lon_sec)

\* The marker of record i, if it has one.
HasMarker(i) ==
  /\ i \in Plotted(idx)
  /\ Rank(i) <= Len(markers)
  /\ markers[Rank(i)].location =
       <<Latitude(obstacle_data[i]), Longitude(obstacle_data[i])>>

MarkersInOrder ==
  /\ Len(markers) = Cardinality(Plotted(idx))
  /\ \A i \in Plotted(idx) : HasMarker(i)

\* C10 as stated: markers in record order, one per record whose coordinates
\* are not both zero; a record with all DMS fields unparseable has none, and
\* a record with exactly one axis unparseable has one.
C10_OneAxisAlwaysPlotted ==
  Plotting =>
    /\ MarkersInOrder
    /\ \A i \in 1..idx :
         LET obs == obstacle_data[i]
         IN  /\ (LatUnparseable(obs) /\ LonUnparseable(obs)) => i \notin Plotted(idx)
             /\ (LatUnparseable(obs) # LonUnparseable(obs)) => HasMarker(i)

\* C10, amended: as above, but a record with exactly one axis unparseable
\* has a marker, with that axis at 0, when its other axis converts to a
\* value other than 0, and has none when the other axis converts to 0.
C10_MarkersForNonZero ==
  Plotting =>
    /\ MarkersInOrder
    /\ \A i \in 1..idx :
         LET obs == obstacle_data[i]
             lat == Latitude(obs)
             lon == Longitude(obs)
         IN  /\ (LatUnparseable(obs) /\ LonUnparseable(obs)) => i \notin Plotted(idx)
             /\ (LatUnparseable(obs) /\ ~LonUnparseable(obs)) =>
                  IF FIsZero(lon) THEN i \notin Plotted(idx)
                  ELSE HasMarker(i) /\ FIsZero(markers[Rank(i)].location[1])
             /\ (LonUnparseable(obs) /\ ~LatUnparseable(obs)) =>
                  IF FIsZero(lat) THEN i \notin Plotted(idx)
                  ELSE HasMarker(i) /\ FIsZero(markers[Rank(i)].location[2])

C10_Witness ==
  /\ pc = "saved"
  /\ Len(obstacle_data) = 2
  /\ LatUnparseable(obstacle_data[1]) /\ LonUnparseable(obstacle_data[1])
  /\ LatUnparseable(obstacle_data[2]) /\ ~LonUnparseable(obstacle_data[2])
  /\ Len(markers) = 1
  /\ FIsZero(markers[1].location[1])
  /\ ~FIsZero(markers[1].location[2])

====
